---- MODULE Spec2Model ----
(***************************************************************************)
(* Model of tesselite/pubsub.py: the Pubsub scoped-resource protocol, the  *)
(* RedisPubsub and GCPPubSub clients (open, close, publish, consume), the  *)
(* retry wrapper applied at each network-facing call site, and             *)
(* pubsubFactory.                                                           *)
(*                                                                         *)
(* A fault is a string naming the exception class; "none" is a normal      *)
(* return.  KeyboardInterrupt is a BaseException: `except Exception` does  *)
(* not catch it.                                                           *)
(***************************************************************************)
EXTENDS Integers, Sequences, FiniteSets, TLC

\* ------------------------------------------------------------------ bounds

\* Replays allowed to the retry wrappers in one run (the wrapper itself is
\* unbounded; the guard caps the counter).
MaxRetries == 2
\* Messages the broker delivers during one run.
MaxMsgs == 2
\* publish calls made by the body of one scope.
MaxPublish == 1
\* Client instances provisioning the same topic and subscription at once.
MaxCreators == 3
\* Times one creator calls open or consume again after it completed.
MaxReruns == 1
\* Messages the producer publishes in the end-to-end delivery.
MaxSent == 3
\* Attempts of one wrapped call that are counted; later ones leave the count.
MaxAttempts == 3
\* Executions of open, close, publish and consume in one direct use of a
\* client (without the managed scope).
MaxCalls == 4

\* ------------------------------------------------------- fault classification

RedisOpenExpected == {"gaierror", "ConnectionError"}
RedisPublishExpected == {"gaierror", "ConnectionError"}
RedisConsumeExpected == {"gaierror", "ConnectionError"}
RedisExecExpected == {"gaierror", "ConnectionError"}

CheckTopicExpected == {"ServiceUnavailable"}
CheckTopicNoisy == {"AlreadyExists"}
\* check_subscription's sets as two plausible slips would leave them: the
\* expected set copied from consume, the noisy set forgotten.
ExpectedAsForConsume == {"ServiceUnavailable", "RetryError"}
NoNoisyFaults == {}
CheckSubscriptionExpected == {"ServiceUnavailable"}
CheckSubscriptionNoisy == {"AlreadyExists"}
GCPPublishExpected == {"ServiceUnavailable"}
GCPPublishNoisy == {"AlreadyExists"}
GCPConsumeExpected == {"ServiceUnavailable", "RetryError"}
GCPConsumeNoisy == {"AlreadyExists", "NotFound", "TimeoutError"}
GCPExecExpected == {"ServiceUnavailable", "MessageProcessingException", "NotFound"}

\* The retry wrapper's decision for the outcome of one execution of the
\* wrapped operation.
connexion(fault, expected, noisy) ==
    IF fault = "none" THEN "return"
    ELSE IF fault \in noisy THEN "suppress"
    ELSE IF fault \in expected THEN "retry"
    ELSE "raise"

\* A handler that would catch the BaseException kinds too (a bare except).
CatchesEveryFault(fault) == fault # "none"

\* `except Exception` catches every fault but the BaseException kinds.
IsException(fault) == fault \notin {"none", "KeyboardInterrupt"}

\* The fault sets of a call site, by the site's name.
Expected(site) ==
    CASE site = "redis.open" -> RedisOpenExpected
      [] site = "redis.publish" -> RedisPublishExpected
      [] site = "redis.consume" -> RedisConsumeExpected
      [] site = "redis.exec_callback" -> RedisExecExpected
      [] site = "gcp.check_topic" -> CheckTopicExpected
      [] site = "gcp.check_subscription" -> CheckSubscriptionExpected
      [] site = "gcp.publish" -> GCPPublishExpected
      [] site = "gcp.consume" -> GCPConsumeExpected
      [] site = "gcp.exec_callback" -> GCPExecExpected
      [] OTHER -> {}

Noisy(site) ==
    CASE site = "gcp.check_topic" -> CheckTopicNoisy
      [] site = "gcp.check_subscription" -> CheckSubscriptionNoisy
      [] site = "gcp.publish" -> GCPPublishNoisy
      [] site = "gcp.consume" -> GCPConsumeNoisy
      [] OTHER -> {}

\* A fault raised by the innermost site of `chain` (innermost first) travels
\* outwards through the wrappers until one of them does not re-raise it.
\* d: the decision of the wrapper that stops it ("raise": none did, the fault
\* reaches the caller of the outermost site); site: that wrapper's site;
\* through: the sites whose wrapper re-raised it.
RECURSIVE PropagateFrom(_, _, _, _)
PropagateFrom(fault, chain, i, through) ==
    IF i > Len(chain)
    THEN [d |-> "raise", site |-> "caller", through |-> through]
    ELSE LET d == connexion(fault, Expected(chain[i]), Noisy(chain[i]))
         IN IF d = "raise"
            THEN PropagateFrom(fault, chain, i + 1, through \cup {chain[i]})
            ELSE [d |-> d, site |-> chain[i], through |-> through]

Propagate(fault, chain) == PropagateFrom(fault, chain, 1, {})

\* ------------------------------------------------------------------- state

Msgs == 1..MaxMsgs

VARIABLES
    kind,           \* the client type in use: "redis" or "gcp"
    pc,             \* position of the calling thread
    deadLetter,     \* whether consume was given a dead-letter topic
    client,         \* the connection handle: "None", "live" or "closed"
    openCalls,      \* calls of open
    closeCalls,     \* calls of close
    retries,        \* replays made by the retry wrappers
    scopeFault,     \* the fault with which the scope body was left, or "none"
    raised,         \* the fault that reached the caller of the scope, or "none"
    pubCalls,       \* publish calls made by the body
    pubReturned,    \* publish calls that returned normally
    pubConfirmed,   \* sends the broker accepted
    topicExists,    \* the broker holds the topic
    subExists,      \* the broker holds the subscription
    topicCreated,   \* creations of the topic so far, by any creator
    subCreated,     \* creations of the subscription so far, by any creator
    subTopic,       \* the topic the subscription of that name is bound to:
                    \* "own" (the client's), "other", or "none" (no such
                    \* subscription)
    escalated,      \* sites whose wrapper re-raised a fault on which an
                    \* enclosing wrapper then decided to replay
    rerun,          \* the escalated sites that were executed again
    replays,        \* <<site, fault>>: the wrapper at site replayed on fault
    consumeResult,  \* "none", "returned" or "raised"
    consumeFault,   \* the fault consume raised to its caller
    interrupted,    \* an interruption was sent during consume
    intPending,     \* an interruption is sent and not yet raised
    subscribes,     \* subscribe calls (redis) / streaming pulls started (gcp)
    confirmed,      \* redis: the subscribe confirmation event was yielded
    cur,            \* redis: the event being dispatched
    nextMsg,        \* redis: messages yielded so far
    cbCalls,        \* per message: invocations of the user callback
    cbState,        \* per message, its latest callback invocation: "pending",
                    \* "running", "ok", "retry" (faulted, replay decided),
                    \* "fault" (faulted, re-raised) or "interrupted"
    acked,          \* gcp: the messages acknowledged
    dlq,            \* redis: the events published to the dead-letter topic
    futureCancelled,\* gcp: the streaming future was cancelled
    provPc,         \* provisioning race: each creator's position
    provFault,      \* provisioning race: the fault each creator ended with
    provRuns,       \* provisioning race, per creator: count, the calls it
                    \* repeated; again, the call in progress repeats the one
                    \* that completed just before it
    channel,        \* delivery: the events the broker pushed to the
                    \* consumer's subscription, not yet yielded by listen
    sent,           \* delivery: per publish, the payload and whether the
                    \* broker had a subscriber for it
    received,       \* delivery: the arguments of the callback invocations
    rtChain,        \* persistent fault: the wrapped call sites around the
                    \* operation, innermost first
    rtFault,        \* persistent fault: what the operation raises each time
    rtPc,           \* persistent fault: "call", "backoff", "returned", "raised"
    rtAttempts,     \* persistent fault: executions of the operation, counted
                    \* up to MaxAttempts
    lc,             \* direct use of one client, a record: pc, the caller's
                    \* position; handle, the _client / _publisher_client
                    \* field; conn, the handle has a live connection; pubsub,
                    \* the _pubsub field; orphans, live handles the instance
                    \* dropped without releasing; state, what the calls so
                    \* far told the caller; last, the latest ended call;
                    \* calls, executions so far
    brokerFrom,     \* factory: where the identifier comes from: "argument",
                    \* "environment" (BROKER is set) or "default"
    broker,         \* factory: the identifier given
    factoryOut      \* factory: what the call produced

scopeVars == <<kind, deadLetter, client, openCalls, closeCalls, scopeFault, raised>>
pubVars == <<pubCalls, pubReturned, pubConfirmed>>
brokerVars == <<topicExists, subExists, topicCreated, subCreated, subTopic>>
trackVars == <<escalated, rerun, replays>>
consVars == <<consumeResult, consumeFault, interrupted, intPending, subscribes,
              confirmed, cur, nextMsg, cbCalls, cbState, acked, dlq,
              futureCancelled>>
provVars == <<provPc, provFault, provRuns>>
deliveryVars == <<channel, sent, received>>
retryVars == <<rtChain, rtFault, rtPc, rtAttempts>>
factoryVars == <<brokerFrom, broker, factoryOut>>

vars == <<pc, retries, scopeVars, pubVars, brokerVars, trackVars, consVars,
          provVars, deliveryVars, retryVars, lc, factoryVars>>

\* ------------------------------------------------------------ environment

\* What one execution of an operation of the native client can raise.
RedisOpenFaults == {"none", "gaierror", "ConnectionError", "ResponseError"}
RedisPublishFaults == {"none", "ConnectionError", "ResponseError"}
RedisSubscribeFaults == {"none", "ConnectionError"}
RedisListenFaults == {"ConnectionError", "ResponseError"}
DeadLetterPublishFaults == {"none", "ConnectionError"}
GCPPublishFaults == {"none", "ServiceUnavailable", "AlreadyExists", "PermissionDenied"}
GetTopicFaults == {"ServiceUnavailable", "PermissionDenied"}
CreateTopicFaults == {"ServiceUnavailable", "RetryError"}
GetSubscriptionFaults == {"InvalidArgument", "ServiceUnavailable", "RetryError",
                          "PermissionDenied"}
CreateSubscriptionFaults == {"ServiceUnavailable", "NotFound"}
StreamFaults == {"ServiceUnavailable", "RetryError", "NotFound", "TimeoutError",
                 "PermissionDenied"}
AckFaults == {"none", "ServiceUnavailable"}
\* What one invocation of the user callback can do.
CallbackOutcomes == {"none", "ValueError", "ConnectionError", "KeyboardInterrupt"}

NoEvent == [type |-> "none", data |-> 0]
SubscribeEvent == [type |-> "subscribe", data |-> 0]
MessageEvent(m) == [type |-> "message", data |-> m]

\* ------------------------------------------------------------------- Init

ProvIdle == /\ provPc = <<>>
            /\ provFault = <<>>
            /\ provRuns = <<>>

FactoryIdle == /\ brokerFrom = "none"
               /\ broker = <<>>
               /\ factoryOut = "pending"

NoCall == [call |-> "none", fault |-> "none", stateBefore |-> "new", reached |-> FALSE]

LifecycleIdle ==
    lc = [pc |-> "idle", handle |-> "None", conn |-> FALSE, pubsub |-> "None",
          orphans |-> 0, state |-> "new", last |-> NoCall, calls |-> 0]

RetryIdle == /\ rtChain = <<>>
             /\ rtFault = "none"
             /\ rtPc = "idle"
             /\ rtAttempts = 0

ClientInit ==
    /\ pc = "init"
    /\ client = "None"
    /\ openCalls = 0
    /\ closeCalls = 0
    /\ retries = 0
    /\ scopeFault = "none"
    /\ raised = "none"
    /\ pubCalls = 0
    /\ pubReturned = 0
    /\ pubConfirmed = 0
    /\ topicCreated = (IF topicExists THEN 1 ELSE 0)
    /\ subCreated = (IF subExists THEN 1 ELSE 0)
    /\ subTopic \in (IF subExists THEN {"own", "other"} ELSE {"none"})
    /\ escalated = {}
    /\ rerun = {}
    /\ replays = {}
    /\ consumeResult = "none"
    /\ consumeFault = "none"
    /\ interrupted = FALSE
    /\ intPending = FALSE
    /\ subscribes = 0
    /\ confirmed = FALSE
    /\ cur = NoEvent
    /\ nextMsg = 0
    /\ cbCalls = [m \in Msgs |-> 0]
    /\ cbState = [m \in Msgs |-> "pending"]
    /\ acked = {}
    /\ dlq = <<>>
    /\ futureCancelled = FALSE
    /\ channel = <<>>
    /\ sent = <<>>
    /\ received = <<>>

Init ==
    /\ kind \in {"redis", "gcp"}
    /\ deadLetter \in BOOLEAN
    /\ topicExists \in (IF kind = "gcp" THEN BOOLEAN ELSE {FALSE})
    /\ subExists \in (IF kind = "gcp" THEN BOOLEAN ELSE {FALSE})
    /\ ClientInit
    /\ ProvIdle
    /\ FactoryIdle
    /\ RetryIdle
    /\ LifecycleIdle

\* ------------------------------------------------------- wrapper bookkeeping

\* One step that executed the sites `executed`, in which the wrappers of
\* `through` re-raised a fault an enclosing wrapper replays on, and the
\* wrappers of `replayed` (<<site, fault>>) decided to replay.
Track(executed, through, replayed) ==
    /\ rerun' = rerun \cup (executed \cap escalated)
    /\ escalated' = escalated \cup through
    /\ replays' = replays \cup replayed

Replayed(p, fault) == IF p.d = "retry" THEN {<<p.site, fault>>} ELSE {}

Escalated(p) == IF p.d = "retry" THEN p.through ELSE {}

\* A replay is one more use of the retry budget.
Budget(p) ==
    IF p.d = "retry"
    THEN retries < MaxRetries /\ retries' = retries + 1
    ELSE retries' = retries

\* Where the calling thread continues after a step of consume whose fault
\* travelled as p: okPc on a normal return of the innermost site.
Goto(p, okPc) ==
    CASE p.d = "return" -> okPc
      [] p.d = "retry" /\ p.site = "gcp.check_topic" -> pc
      [] p.d = "retry" /\ p.site = "gcp.check_subscription" -> "c_chk"
      [] p.d = "retry" /\ p.site \in {"gcp.consume", "redis.consume"} -> "c_start"
      [] p.d = "retry" /\ p.site = "redis.exec_callback" -> "c_exec"
      [] p.d = "suppress" /\ p.site = "gcp.check_topic" -> okPc
      [] p.d = "suppress" /\ p.site = "gcp.check_subscription" -> "c_subscribe"
      [] p.d = "suppress" /\ p.site = "redis.exec_callback" -> okPc
      [] p.d = "suppress" /\ p.site \in {"gcp.consume", "redis.consume"} -> "body"
      [] OTHER -> "exit"

\* The end of a step of consume: the thread moves on, and consume's result is
\* set when the call ends (it returns to the body, or raises out of it).
ConsumeStep(p, fault, okPc) ==
    LET to == Goto(p, okPc)
    IN /\ pc' = to
       /\ Budget(p)
       /\ consumeResult' = CASE to = "body" -> "returned"
                             [] to = "exit" -> "raised"
                             [] OTHER -> consumeResult
       /\ consumeFault' = IF to = "exit" THEN fault ELSE consumeFault
       /\ scopeFault' = IF to = "exit" THEN fault ELSE scopeFault

\* Groups of variables a step leaves alone.
fixedVars == <<kind, deadLetter, provVars, deliveryVars, retryVars, lc, factoryVars>>
lifeVars == <<client, openCalls, closeCalls, raised>>
resultVars == <<consumeResult, consumeFault, scopeFault>>
msgVars == <<confirmed, cur, nextMsg, cbCalls, cbState, acked, dlq>>
intVars == <<interrupted, intPending, futureCancelled>>

\* ------------------------------------------------------- scope, open, close

\* Pubsub.__enter__ with RedisPubsub.open: one execution of open under its
\* wrapper.  The handle is assigned before the probe.
RedisOpen ==
    /\ kind = "redis"
    /\ pc \in {"init", "o_retry"}
    /\ \E f \in RedisOpenFaults :
         LET p == Propagate(f, <<"redis.open">>)
         IN /\ Track({"redis.open"}, Escalated(p), Replayed(p, f))
            /\ Budget(p)
            /\ client' = "live"
            /\ openCalls' = IF pc = "init" THEN openCalls + 1 ELSE openCalls
            /\ pc' = CASE p.d = "retry" -> "o_retry"
                       [] p.d = "raise" -> "noscope"
                       [] OTHER -> "body"
            /\ raised' = IF p.d = "raise" THEN f ELSE raised
    /\ UNCHANGED <<fixedVars, closeCalls, resultVars, pubVars, brokerVars,
                   msgVars, intVars, subscribes>>

\* Pubsub.__enter__ with GCPPubSub.open, up to its call of check_topic.
GCPOpen ==
    /\ kind = "gcp"
    /\ pc = "init"
    /\ client' = "live"
    /\ openCalls' = openCalls + 1
    /\ pc' = "o_check"
    /\ UNCHANGED <<fixedVars, retries, closeCalls, raised, resultVars, pubVars,
                   brokerVars, trackVars, msgVars, intVars, subscribes>>

\* An __exit__ that would close only after a body that ended normally.
ExitClosesOnSuccessOnly(fault) == fault = "none"

\* Whether __exit__ calls close, given the fault the body was left with: it
\* does not look at it.
ExitCloses(fault) == TRUE

\* Pubsub.__exit__: close, then the body's fault (if any) goes on to the
\* caller, since __exit__ returns None.
Exit ==
    /\ pc = "exit"
    /\ IF ExitCloses(scopeFault)
       THEN closeCalls' = closeCalls + 1 /\ client' = "closed"
       ELSE UNCHANGED <<closeCalls, client>>
    /\ raised' = scopeFault
    /\ pc' = "done"
    /\ UNCHANGED <<fixedVars, retries, openCalls, resultVars, pubVars, brokerVars,
                   trackVars, msgVars, intVars, subscribes>>

\* The body of the scope ends without a fault.
BodyDone ==
    /\ pc = "body"
    /\ pc' = "exit"
    /\ UNCHANGED <<fixedVars, retries, lifeVars, resultVars, pubVars, brokerVars,
                   trackVars, msgVars, intVars, subscribes>>

\* The body of the scope raises a fault of its own.
BodyRaise ==
    /\ pc = "body"
    /\ pc' = "exit"
    /\ scopeFault' = "ValueError"
    /\ UNCHANGED <<fixedVars, retries, lifeVars, consumeResult, consumeFault,
                   pubVars, brokerVars, trackVars, msgVars, intVars, subscribes>>

\* ------------------------------------------------------------------ publish

\* One execution of publish under its wrapper; `site` and `faults` are the
\* client's.  A suppressed fault makes publish return None with nothing sent.
PublishAttempt(site, faults) ==
    /\ consumeResult = "none"
    /\ \/ pc = "body" /\ pubCalls < MaxPublish /\ pubCalls' = pubCalls + 1
       \/ pc = "p_retry" /\ pubCalls' = pubCalls
    /\ \E f \in faults :
         LET p == Propagate(f, <<site>>)
         IN /\ Track({site}, Escalated(p), Replayed(p, f))
            /\ Budget(p)
            /\ pubConfirmed' = IF f = "none" THEN pubConfirmed + 1 ELSE pubConfirmed
            /\ pubReturned' = IF p.d \in {"return", "suppress"}
                              THEN pubReturned + 1 ELSE pubReturned
            /\ pc' = CASE p.d = "retry" -> "p_retry"
                       [] p.d = "raise" -> "exit"
                       [] OTHER -> "body"
            /\ scopeFault' = IF p.d = "raise" THEN f ELSE scopeFault
    /\ UNCHANGED <<fixedVars, lifeVars, consumeResult, consumeFault, brokerVars,
                   msgVars, intVars, subscribes>>

RedisPublish == kind = "redis" /\ PublishAttempt("redis.publish", RedisPublishFaults)

GCPPublish == kind = "gcp" /\ PublishAttempt("gcp.publish", GCPPublishFaults)

\* ------------------------------------------------------------- provisioning

\* What the broker answers to a get: the resource, not-found, or a fault.
GetOutcomes(exists, faults) == {IF exists THEN "none" ELSE "NotFound"} \cup faults

\* What the broker answers to a create: success only when the resource is
\* absent; already-exists when it is present or another creator came first
\* (the resource then exists, created by that other creator).
CreateOutcomes(exists, faults) ==
    (IF exists THEN {} ELSE {"none"}) \cup {"AlreadyExists"} \cup faults

\* The fault the body of check_topic ends with, given the answers to
\* get_topic (g) and, after not-found, create_topic (c).
check_topic(g, c) ==
    IF g = "none" THEN "none"
    ELSE IF g = "NotFound" THEN c
    ELSE g

\* The fault the body of check_subscription ends with after its check_topic
\* returned, given the answers to get_subscription (g) and create_subscription (c).
check_subscription(g, c) ==
    IF g = "none" THEN "none"
    ELSE IF g \in {"NotFound", "InvalidArgument"} THEN c
    ELSE g

TopicEffect(g, c) ==
    /\ topicExists' = (topicExists \/ (g = "NotFound" /\ c \in {"none", "AlreadyExists"}))
    /\ topicCreated' = IF ~topicExists /\ topicExists'
                       THEN topicCreated + 1 ELSE topicCreated

SubscriptionEffect(g, c) ==
    /\ subExists' = (subExists \/ (g \in {"NotFound", "InvalidArgument"}
                                   /\ c \in {"none", "AlreadyExists"}))
    /\ subCreated' = IF ~subExists /\ subExists'
                     THEN subCreated + 1 ELSE subCreated
    /\ subTopic' = IF ~subExists /\ subExists' THEN "own" ELSE subTopic

\* GCPPubSub.open: one execution of check_topic under its wrapper; open itself
\* is not wrapped, so a fault check_topic re-raises leaves __enter__.
OpenCheckTopic ==
    /\ kind = "gcp"
    /\ pc = "o_check"
    /\ \E g \in GetOutcomes(topicExists, GetTopicFaults) :
       \E c \in (IF g = "NotFound" THEN CreateOutcomes(topicExists, CreateTopicFaults)
                 ELSE {"none"}) :
         LET f == check_topic(g, c)
             p == Propagate(f, <<"gcp.check_topic">>)
         IN /\ TopicEffect(g, c)
            /\ Track({"gcp.check_topic"}, Escalated(p), Replayed(p, f))
            /\ Budget(p)
            /\ pc' = CASE p.d = "retry" -> "o_check"
                       [] p.d = "raise" -> "noscope"
                       [] OTHER -> "body"
            /\ raised' = IF p.d = "raise" THEN f ELSE raised
    /\ UNCHANGED <<fixedVars, client, openCalls, closeCalls, resultVars, pubVars,
                   subExists, subCreated, subTopic, msgVars, intVars, subscribes>>

\* The body calls consume (a body publishes or consumes, as the example
\* scripts do).
CallConsume ==
    /\ pc = "body"
    /\ consumeResult = "none"
    /\ pubCalls = 0
    /\ pc' = "c_start"
    /\ UNCHANGED <<fixedVars, retries, lifeVars, resultVars, pubVars, brokerVars,
                   trackVars, msgVars, intVars, subscribes>>

\* GCPPubSub.consume up to the first statement of check_subscription: from
\* c_start consume (re)starts, from c_chk check_subscription is replayed.
EnterCheckSubscription ==
    /\ kind = "gcp"
    /\ pc \in {"c_start", "c_chk"}
    /\ Track(IF pc = "c_start" THEN {"gcp.consume", "gcp.check_subscription"}
             ELSE {"gcp.check_subscription"}, {}, {})
    /\ pc' = "c_topic"
    /\ UNCHANGED <<fixedVars, retries, lifeVars, resultVars, pubVars, brokerVars,
                   msgVars, intVars, subscribes>>

\* check_topic called by check_subscription called by consume.
ConsumeCheckTopic ==
    /\ kind = "gcp"
    /\ pc = "c_topic"
    /\ \E g \in GetOutcomes(topicExists, GetTopicFaults) :
       \E c \in (IF g = "NotFound" THEN CreateOutcomes(topicExists, CreateTopicFaults)
                 ELSE {"none"}) :
         LET f == check_topic(g, c)
             p == Propagate(f, <<"gcp.check_topic", "gcp.check_subscription",
                                 "gcp.consume">>)
         IN /\ TopicEffect(g, c)
            /\ Track({"gcp.check_topic"}, Escalated(p), Replayed(p, f))
            /\ ConsumeStep(p, f, "c_sub")
    /\ UNCHANGED <<fixedVars, lifeVars, pubVars, subExists, subCreated, subTopic, msgVars,
                   intVars, subscribes>>

\* The rest of check_subscription: get_subscription, and create_subscription
\* after not-found or invalid-argument.
CheckSubscription ==
    /\ kind = "gcp"
    /\ pc = "c_sub"
    /\ \E g \in GetOutcomes(subExists, GetSubscriptionFaults) :
       \E c \in (IF g \in {"NotFound", "InvalidArgument"}
                 THEN CreateOutcomes(subExists, CreateSubscriptionFaults)
                 ELSE {"none"}) :
         LET f == check_subscription(g, c)
             p == Propagate(f, <<"gcp.check_subscription", "gcp.consume">>)
         IN /\ SubscriptionEffect(g, c)
            /\ Track({}, Escalated(p), Replayed(p, f))
            /\ ConsumeStep(p, f, "c_subscribe")
    /\ UNCHANGED <<fixedVars, lifeVars, pubVars, topicExists, topicCreated, msgVars,
                   intVars, subscribes>>

\* subscriber.subscribe: the streaming pull starts and consume blocks on its
\* future.
GCPSubscribe ==
    /\ kind = "gcp"
    /\ pc = "c_subscribe"
    /\ subscribes' = subscribes + 1
    /\ futureCancelled' = FALSE
    /\ pc' = "c_wait"
    /\ UNCHANGED <<fixedVars, retries, lifeVars, resultVars, pubVars, brokerVars,
                   trackVars, msgVars, interrupted, intPending>>

\* ---------------------------------------------------------- redis consume

\* RedisPubsub.consume from its first statement: a new pubsub handle
\* subscribes to the topic.
RedisSubscribe ==
    /\ kind = "redis"
    /\ pc = "c_start"
    /\ \E f \in RedisSubscribeFaults :
         LET p == Propagate(f, <<"redis.consume">>)
         IN /\ Track({"redis.consume"}, Escalated(p), Replayed(p, f))
            /\ ConsumeStep(p, f, "c_wait")
    /\ subscribes' = subscribes + 1
    /\ confirmed' = FALSE
    /\ cur' = NoEvent
    /\ UNCHANGED <<fixedVars, lifeVars, pubVars, brokerVars, nextMsg, cbCalls,
                   cbState, acked, dlq, intVars>>

\* listen() yields the next event (the subscribe confirmation first, then the
\* messages in order), or raises.
RedisListen ==
    /\ kind = "redis"
    /\ pc = "c_wait"
    /\ ~intPending
    /\ \/ /\ IF confirmed
             THEN /\ nextMsg < MaxMsgs
                  /\ cur' = MessageEvent(nextMsg + 1)
                  /\ nextMsg' = nextMsg + 1
                  /\ UNCHANGED confirmed
             ELSE /\ cur' = SubscribeEvent
                  /\ confirmed' = TRUE
                  /\ UNCHANGED nextMsg
          /\ pc' = "c_exec"
          /\ UNCHANGED <<retries, resultVars, trackVars>>
       \/ /\ \E f \in RedisListenFaults :
               LET p == Propagate(f, <<"redis.consume">>)
               IN /\ Track({}, Escalated(p), Replayed(p, f))
                  /\ ConsumeStep(p, f, "c_wait")
          /\ UNCHANGED <<confirmed, cur, nextMsg>>
    /\ UNCHANGED <<fixedVars, lifeVars, pubVars, brokerVars, cbCalls, cbState,
                   acked, dlq, intVars, subscribes>>

\* A consume without the KeyboardInterrupt handlers: the interruption would
\* leave it as a fault.
InterruptRaises(k) == [result |-> "raised", cancels |-> FALSE]

\* What consume of client type k does with an interruption: its result, and
\* whether the streaming future is cancelled first.
InterruptExit(k) == [result |-> "returned", cancels |-> k = "gcp"]

\* The fault the handler of the event loop re-raises for callback fault o,
\* q being the outcome of its dead-letter publish.
HandlerFault(o, q) == IF deadLetter /\ q # "none" THEN q ELSE o

\* One execution of exec_callback(msg) under its wrapper, with what the event
\* loop does next: back to listen, replay, the fault handler (dead-letter
\* publish, re-raise into consume's wrapper) or the interruption handler.
RedisExec ==
    /\ kind = "redis"
    /\ pc = "c_exec"
    /\ IF cur.type # "message"
       THEN /\ pc' = "c_wait"
            /\ Track({"redis.exec_callback"}, {}, {})
            /\ UNCHANGED <<retries, resultVars, cbCalls, cbState, dlq, interrupted>>
       ELSE \E o \in CallbackOutcomes :
            LET m == cur.data
                p1 == Propagate(o, <<"redis.exec_callback">>)
                caught == p1.d = "raise" /\ IsException(o)
                stopped == p1.d = "raise" /\ ~IsException(o)
            IN \E q \in (IF caught /\ deadLetter THEN DeadLetterPublishFaults
                         ELSE {"none"}) :
               LET f2 == HandlerFault(o, q)
                   p2 == Propagate(f2, <<"redis.consume">>)
               IN /\ cbCalls' = [cbCalls EXCEPT ![m] = @ + 1]
                  /\ cbState' = [cbState EXCEPT ![m] =
                                   IF o = "none" THEN "ok"
                                   ELSE IF p1.d = "retry" THEN "retry"
                                   ELSE IF o = "KeyboardInterrupt" THEN "interrupted"
                                   ELSE "fault"]
                  /\ dlq' = IF caught /\ deadLetter /\ q = "none"
                            THEN Append(dlq, cur) ELSE dlq
                  /\ interrupted' = (interrupted \/ o = "KeyboardInterrupt")
                  /\ Track({"redis.exec_callback"},
                           IF caught /\ f2 = o /\ p2.d = "retry" THEN p1.through ELSE {},
                           Replayed(p1, o) \cup (IF caught THEN Replayed(p2, f2) ELSE {}))
                  /\ IF caught THEN ConsumeStep(p2, f2, "c_wait")
                     ELSE IF stopped
                     THEN LET r == InterruptExit(kind)
                          IN /\ pc' = IF r.result = "returned" THEN "body" ELSE "exit"
                             /\ consumeResult' = r.result
                             /\ consumeFault' = IF r.result = "raised" THEN o
                                                ELSE consumeFault
                             /\ scopeFault' = IF r.result = "raised" THEN o
                                              ELSE scopeFault
                             /\ UNCHANGED retries
                     ELSE ConsumeStep(p1, o, "c_wait")
    /\ UNCHANGED <<fixedVars, lifeVars, pubVars, brokerVars, confirmed, cur, nextMsg,
                   acked, intPending, futureCancelled, subscribes>>

\* ------------------------------------------------------------ gcp consume

\* An exec_callback that would ack whatever the callback did (ack placed
\* outside the try, or in a finally).
AckRegardless(o, a) ==
    [ack |-> a = "none",
     fault |-> IF o # "none" \/ a # "none" THEN "MessageProcessingException" ELSE "none"]

\* What exec_callback does for one message, given the outcome of the user
\* callback (o) and of message.ack() (a): whether the message ends up
\* acknowledged, and the fault exec_callback raises.
exec_callback(o, a) ==
    IF o # "none" THEN [ack |-> FALSE, fault |-> "MessageProcessingException"]
    ELSE IF a # "none" THEN [ack |-> FALSE, fault |-> "MessageProcessingException"]
    ELSE [ack |-> TRUE, fault |-> "none"]

\* A worker of the streaming pull enters exec_callback for message m (first
\* delivery, or a replay by the wrapper) and invokes the user callback.
GCPInvoke(m) ==
    /\ kind = "gcp"
    /\ pc = "c_wait"
    /\ cbState[m] \in {"pending", "retry"}
    /\ cbState' = [cbState EXCEPT ![m] = "running"]
    /\ cbCalls' = [cbCalls EXCEPT ![m] = @ + 1]
    /\ Track({"gcp.exec_callback"}, {}, {})
    /\ UNCHANGED <<fixedVars, pc, retries, lifeVars, resultVars, pubVars, brokerVars,
                   confirmed, cur, nextMsg, acked, dlq, intVars, subscribes>>

\* The user callback of message m returns or faults; exec_callback acks or
\* raises, and its wrapper decides.
GCPCallbackEnd(m) ==
    /\ kind = "gcp"
    /\ pc = "c_wait"
    /\ cbState[m] = "running"
    /\ \E o \in CallbackOutcomes \ {"KeyboardInterrupt"} :
       \E a \in (IF o = "none" THEN AckFaults ELSE {"none"}) :
         LET r == exec_callback(o, a)
             p == Propagate(r.fault, <<"gcp.exec_callback">>)
         IN /\ Budget(p)
            /\ Track({}, Escalated(p), Replayed(p, r.fault))
            /\ cbState' = [cbState EXCEPT ![m] =
                             CASE p.d = "return" -> "ok"
                               [] p.d = "retry" -> "retry"
                               [] OTHER -> "fault"]
            /\ acked' = IF r.ack THEN acked \cup {m} ELSE acked
    /\ UNCHANGED <<fixedVars, pc, lifeVars, resultVars, pubVars, brokerVars,
                   confirmed, cur, nextMsg, cbCalls, dlq, intVars, subscribes>>

\* future.result() raises: the streaming session ended with a fault.
GCPStreamEnds ==
    /\ kind = "gcp"
    /\ pc = "c_wait"
    /\ ~intPending
    /\ \E f \in StreamFaults :
         LET p == Propagate(f, <<"gcp.consume">>)
         IN /\ Track({}, Escalated(p), Replayed(p, f))
            /\ ConsumeStep(p, f, "c_wait")
    /\ UNCHANGED <<fixedVars, lifeVars, pubVars, brokerVars, msgVars, intVars,
                   subscribes>>

\* ------------------------------------------------------------ interruption

\* The operator sends an interruption while consume is blocked (in listen, or
\* on the future).
Interrupt ==
    /\ pc = "c_wait"
    /\ ~intPending
    /\ intPending' = TRUE
    /\ interrupted' = TRUE
    /\ UNCHANGED <<fixedVars, pc, retries, lifeVars, resultVars, pubVars, brokerVars,
                   trackVars, msgVars, futureCancelled, subscribes>>

\* The blocked call raises KeyboardInterrupt in the calling thread and
\* consume's handler runs.
RaiseKeyboardInterrupt ==
    /\ pc = "c_wait"
    /\ intPending
    /\ LET r == InterruptExit(kind)
       IN /\ pc' = IF r.result = "returned" THEN "body" ELSE "exit"
          /\ consumeResult' = r.result
          /\ consumeFault' = IF r.result = "raised" THEN "KeyboardInterrupt"
                             ELSE consumeFault
          /\ scopeFault' = IF r.result = "raised" THEN "KeyboardInterrupt"
                           ELSE scopeFault
          /\ futureCancelled' = (futureCancelled \/ r.cancels)
    /\ intPending' = FALSE
    /\ UNCHANGED <<fixedVars, retries, lifeVars, pubVars, brokerVars, trackVars,
                   msgVars, interrupted, subscribes>>

\* ------------------------------------------------------------ specification

Next ==
    \/ RedisOpen
    \/ GCPOpen
    \/ OpenCheckTopic
    \/ Exit
    \/ BodyDone
    \/ BodyRaise
    \/ RedisPublish
    \/ GCPPublish
    \/ CallConsume
    \/ EnterCheckSubscription
    \/ ConsumeCheckTopic
    \/ CheckSubscription
    \/ GCPSubscribe
    \/ RedisSubscribe
    \/ RedisListen
    \/ RedisExec
    \/ \E m \in Msgs : GCPInvoke(m)
    \/ \E m \in Msgs : GCPCallbackEnd(m)
    \/ GCPStreamEnds
    \/ Interrupt
    \/ RaiseKeyboardInterrupt

Spec == Init /\ [][Next]_vars

\* The interpreter raises a pending KeyboardInterrupt in the blocked calling
\* thread.
FairSpec == Spec /\ WF_vars(RaiseKeyboardInterrupt)

\* ------------------------------------------------------------------ claims

\* C1: entering the scope calls open; once the scope is left, normally or by
\* a fault of the body, close has been called exactly once; close is not
\* called before the body is left, nor when the body was never entered.
ScopeClosesExactlyOnce ==
    /\ pc # "init" => openCalls = 1
    /\ pc = "done" => closeCalls = 1
    /\ pc # "done" => closeCalls = 0

\* C1 witness: a scope left by a fault of its body, closed once.
ScopeLeftByFault == pc = "done" /\ scopeFault # "none" /\ closeCalls = 1

\* C2: the user callback is invoked at most once for each delivered message.
CallbackOncePerDelivery == \A m \in Msgs : cbCalls[m] <= 1

\* C3: a message is acknowledged only by the step in which its own callback
\* invocation returns without fault; no step acknowledges a message whose
\* callback is not running in it, and every acknowledged message's latest
\* callback invocation returned without fault.
AckOnlyAfterCallbackReturned ==
    [][\A m \in Msgs :
         /\ m \in acked' => cbState'[m] = "ok"
         /\ m \in acked' \ acked => cbState[m] = "running"]_vars

\* C3 witness: one message acknowledged while another, handled concurrently,
\* has faulted and is not acknowledged.
AckedBesideFaulted ==
    \E m \in Msgs : \E n \in Msgs \ {m} :
        /\ m \in acked
        /\ cbState[n] = "retry"
        /\ n \notin acked

\* C4: in the redis client with a dead-letter topic, once the callback has
\* faulted for a message (consume itself not having been replayed for a
\* transport fault), that event is the one event published to the dead-letter
\* topic, the callback was invoked once for it, the fault has been raised to
\* the caller of consume and the topic was subscribed once.
DeadLetterOnceThenStop ==
    (kind = "redis" /\ deadLetter /\ \A r \in replays : r[1] # "redis.consume")
    => \A m \in Msgs :
         cbState[m] \in {"fault", "retry"}
         => /\ dlq = <<MessageEvent(m)>>
            /\ cbCalls[m] = 1
            /\ consumeResult = "raised"
            /\ subscribes = 1

\* C5: an interruption sent while consume is blocked leads to consume
\* returning without a fault, the streaming future of the cloud client being
\* cancelled.
InterruptLeadsToReturn ==
    intPending ~> (/\ consumeResult = "returned"
                   /\ consumeFault = "none"
                   /\ (kind = "gcp" => futureCancelled))

\* C5 witness: the cloud consume returned after an interruption, its future
\* cancelled.
InterruptedAndCancelled ==
    /\ kind = "gcp"
    /\ interrupted
    /\ ~intPending
    /\ consumeResult = "returned"
    /\ futureCancelled

\* C6: consume returns normally only after an interruption.
SilentReturnOnlyOnInterrupt == consumeResult = "returned" => interrupted

\* C8 as stated: no site is executed again after its wrapper re-raised a
\* fault outside its expected and noisy sets.
NoRerunAfterUnclassified == rerun = {}

\* C8 amended: each wrapper replays only on the faults of its own expected
\* set, and a site whose wrapper re-raised a fault runs again only inside a
\* replay of consume on RetryError, the one fault an enclosing site expects
\* and an inner one (check_topic, check_subscription) does not.
ReplayOnlyWhereExpected ==
    /\ \A r \in replays :
         \/ r[1] \in {"redis.open", "redis.publish", "redis.consume",
                      "redis.exec_callback"}
            /\ r[2] \in {"gaierror", "ConnectionError"}
         \/ r[1] \in {"gcp.check_topic", "gcp.check_subscription", "gcp.publish"}
            /\ r[2] = "ServiceUnavailable"
         \/ r[1] = "gcp.consume" /\ r[2] \in {"ServiceUnavailable", "RetryError"}
         \/ r[1] = "gcp.exec_callback" /\ r[2] = "MessageProcessingException"
    /\ escalated \subseteq {"gcp.check_topic", "gcp.check_subscription"}
    /\ escalated # {} => <<"gcp.consume", "RetryError">> \in replays

\* C8 witness: check_subscription re-raised a fault it does not classify and
\* ran again inside a replay of consume.
CheckSubscriptionRerun ==
    /\ "gcp.check_subscription" \in rerun
    /\ <<"gcp.consume", "RetryError">> \in replays

\* C9: every cloud publish call that returned normally had its send
\* confirmed by the broker.
PublishReturnsOnlyConfirmed == kind = "gcp" => pubReturned = pubConfirmed

\* ------------------------------------------------------------------ factory

\* Identifiers are sequences of one-character strings.
LowerLetters == <<"a", "b", "c", "d", "e", "f", "g", "i", "k", "p", "r", "s", "u">>
UpperLetters == <<"A", "B", "C", "D", "E", "F", "G", "I", "K", "P", "R", "S", "U">>

\* str.upper, one character.
upperChar(c) ==
    IF \E i \in 1..Len(LowerLetters) : LowerLetters[i] = c
    THEN UpperLetters[CHOOSE i \in 1..Len(LowerLetters) : LowerLetters[i] = c]
    ELSE c

\* str.upper
RECURSIVE upper(_)
upper(str) == IF str = <<>> THEN <<>> ELSE <<upperChar(Head(str))>> \o upper(Tail(str))

REDIS == <<"R", "E", "D", "I", "S">>
GCP_PUBSUB == <<"G", "C", "P", "-", "P", "U", "B", "S", "U", "B">>

\* What a call of pubsubFactory produces: a client type, or the end of the
\* process by exit(1).
pubsubFactory(b) ==
    IF upper(b) = REDIS THEN "RedisPubsub"
    ELSE IF upper(b) = GCP_PUBSUB THEN "GCPPubSub"
    ELSE "exit(1)"

\* Every spelling of a word in upper and lower case letters.
RECURSIVE Spellings(_)
Spellings(w) ==
    IF w = <<>> THEN {<<>>}
    ELSE LET h == Head(w)
             low == IF \E i \in 1..Len(UpperLetters) : UpperLetters[i] = h
                    THEN LowerLetters[CHOOSE i \in 1..Len(UpperLetters) : UpperLetters[i] = h]
                    ELSE h
         IN {<<c>> \o t : c \in {h, low}, t \in Spellings(Tail(w))}

\* The identifiers tried: every spelling of the two supported ones, and some
\* others (the module's default, an empty one, near misses).
BrokerInputs ==
    Spellings(REDIS) \cup Spellings(GCP_PUBSUB) \cup
    { <<"G", "C", "P", "_", "P", "U", "B", "S", "U", "B">>,
      <<"k", "a", "f", "k", "a">>,
      <<"r", "e", "d", "i">>,
      <<"r", "e", "d", "i", "s", "s">>,
      <<>> }

\* What os.environ.get("BROKER", ...) falls back to.
DefaultBroker == <<"G", "C", "P", "_", "P", "U", "B", "S", "U", "B">>

\* The value of the parameter: the argument when one is passed, else the
\* module's BROKER, read from the environment when the variable is set.
InitFactory ==
    /\ \/ brokerFrom \in {"argument", "environment"} /\ broker \in BrokerInputs
       \/ brokerFrom = "default" /\ broker = DefaultBroker
    /\ factoryOut = "pending"
    /\ kind = "gcp"
    /\ deadLetter = FALSE
    /\ topicExists = FALSE
    /\ subExists = FALSE
    /\ ClientInit
    /\ ProvIdle
    /\ RetryIdle
    /\ LifecycleIdle

CallFactory ==
    /\ factoryOut = "pending"
    /\ factoryOut' = pubsubFactory(broker)
    /\ UNCHANGED <<pc, retries, scopeVars, pubVars, brokerVars, trackVars, consVars,
                   provVars, deliveryVars, retryVars, lc, brokerFrom, broker>>

NextFactory == CallFactory

SpecFactory == InitFactory /\ [][NextFactory]_vars

\* C7: the factory returns the client type matching a supported identifier
\* in any letter case, and UnsupportedBrokerError (never the end of the
\* process) for any other identifier.
FactoryReturnsTypeOrError ==
    factoryOut # "pending"
    => factoryOut = (IF upper(broker) = REDIS THEN "RedisPubsub"
                     ELSE IF upper(broker) = GCP_PUBSUB THEN "GCPPubSub"
                     ELSE "UnsupportedBrokerError")

\* ------------------------------------------------- concurrent provisioning

\* Several client instances run open and then consume's provisioning against
\* one broker, interleaved call by call.  The broker answers each call from
\* its state at that moment.  A creator's position: t_get, t_create (open's
\* check_topic), ready (open returned), s_tget, s_tcreate (check_topic inside
\* check_subscription), s_get, s_create, streaming (the pull started),
\* returned (consume returned without streaming), failed (open or consume
\* raised).
Creators == 1..MaxCreators

InitProvision ==
    /\ provPc = [c \in Creators |-> "t_get"]
    /\ provFault = [c \in Creators |-> "none"]
    /\ provRuns = [c \in Creators |-> [count |-> 0, again |-> FALSE]]
    /\ kind = "gcp"
    /\ deadLetter = FALSE
    /\ topicExists \in BOOLEAN
    /\ subExists \in BOOLEAN
    /\ ClientInit
    /\ FactoryIdle
    /\ RetryIdle
    /\ LifecycleIdle

\* Where a creator continues after a provisioning step in open (inOpen) or
\* in consume whose fault travelled as p.
ProvGoto(p, inOpen, okPc) ==
    CASE p.d = "return" -> okPc
      [] p.d = "suppress" /\ p.site = "gcp.check_topic" -> okPc
      [] p.d = "suppress" /\ p.site = "gcp.check_subscription" -> "streaming"
      [] p.d = "suppress" /\ p.site = "gcp.consume" -> "returned"
      [] p.d = "retry" -> IF inOpen THEN "t_get" ELSE "s_tget"
      [] OTHER -> "failed"

ProvStep(c, p, fault, inOpen, okPc) ==
    LET to == ProvGoto(p, inOpen, okPc)
    IN /\ provPc' = [provPc EXCEPT ![c] = to]
       /\ provFault' = [provFault EXCEPT ![c] = IF to = "failed" THEN fault ELSE @]

provOthers == <<pc, retries, scopeVars, pubVars, trackVars, consVars, deliveryVars,
               retryVars, lc, factoryVars>>
provRest == <<provRuns, provOthers>>

\* get_topic of check_topic, in open or in check_subscription.
ProvGetTopic(c) ==
    /\ provPc[c] \in {"t_get", "s_tget"}
    /\ LET inOpen == provPc[c] = "t_get"
           g == IF topicExists THEN "none" ELSE "NotFound"
       IN provPc' = [provPc EXCEPT ![c] =
                       IF g = "NotFound"
                       THEN (IF inOpen THEN "t_create" ELSE "s_tcreate")
                       ELSE (IF inOpen THEN "ready" ELSE "s_get")]
    /\ UNCHANGED <<provFault, brokerVars, provRest>>

\* create_topic of check_topic after not-found, and the wrappers' decision.
ProvCreateTopic(c) ==
    /\ provPc[c] \in {"t_create", "s_tcreate"}
    /\ LET inOpen == provPc[c] = "t_create"
           a == IF topicExists THEN "AlreadyExists" ELSE "none"
           f == check_topic("NotFound", a)
           p == Propagate(f, IF inOpen THEN <<"gcp.check_topic">>
                             ELSE <<"gcp.check_topic", "gcp.check_subscription",
                                    "gcp.consume">>)
       IN /\ TopicEffect("NotFound", a)
          /\ ProvStep(c, p, f, inOpen, IF inOpen THEN "ready" ELSE "s_get")
    /\ UNCHANGED <<subExists, subCreated, subTopic, provRest>>

\* The creator calls open again on the client whose open returned.
ProvReopen(c) ==
    /\ provPc[c] = "ready"
    /\ provRuns[c].count < MaxReruns
    /\ provPc' = [provPc EXCEPT ![c] = "t_get"]
    /\ provRuns' = [provRuns EXCEPT ![c] = [count |-> @.count + 1, again |-> TRUE]]
    /\ UNCHANGED <<provFault, brokerVars, provOthers>>

\* The creator's body calls consume, which enters check_subscription: the
\* first time after open, or again after the pull of its earlier call ended.
ProvCallConsume(c) ==
    /\ provPc[c] \in {"ready", "streaming"}
    /\ LET repeat == provPc[c] = "streaming"
       IN /\ repeat => provRuns[c].count < MaxReruns
          /\ provRuns' = [provRuns EXCEPT ![c] =
                            [count |-> IF repeat THEN @.count + 1 ELSE @.count,
                             again |-> repeat]]
    /\ provPc' = [provPc EXCEPT ![c] = "s_tget"]
    /\ UNCHANGED <<provFault, brokerVars, provOthers>>

\* A provisioning that creates the subscription without looking it up.
CreateSubscriptionBlindly(c) ==
    /\ provPc[c] = "s_get"
    /\ provPc' = [provPc EXCEPT ![c] = "s_create"]
    /\ UNCHANGED <<provFault, brokerVars, provRest>>

\* get_subscription of check_subscription.
ProvGetSubscription(c) ==
    /\ provPc[c] = "s_get"
    /\ provPc' = [provPc EXCEPT ![c] = IF subExists THEN "streaming" ELSE "s_create"]
    /\ UNCHANGED <<provFault, brokerVars, provRest>>

\* create_subscription of check_subscription after not-found, and the
\* wrappers' decision.
ProvCreateSubscription(c) ==
    /\ provPc[c] = "s_create"
    /\ LET a == IF subExists THEN "AlreadyExists" ELSE "none"
           f == check_subscription("NotFound", a)
           p == Propagate(f, <<"gcp.check_subscription", "gcp.consume">>)
       IN /\ SubscriptionEffect("NotFound", a)
          /\ ProvStep(c, p, f, FALSE, "streaming")
    /\ UNCHANGED <<topicExists, topicCreated, provRest>>

NextProvision ==
    \E c \in Creators :
        \/ ProvGetTopic(c)
        \/ ProvCreateTopic(c)
        \/ ProvReopen(c)
        \/ ProvCallConsume(c)
        \/ ProvGetSubscription(c)
        \/ ProvCreateSubscription(c)

SpecProvision == InitProvision /\ [][NextProvision]_vars

\* C10: under every interleaving of the creators, each resource is created
\* at most once, no creator's open or consume fails or ends without
\* streaming, and once all creators stream there is exactly one creation of
\* the topic and one of the subscription, both existing.
CreatorsRaceSafely ==
    /\ \A c \in Creators : provPc[c] \notin {"failed", "returned"}
    /\ \A c \in Creators : provFault[c] = "none"
    /\ topicCreated <= 1
    /\ subCreated <= 1
    /\ (\A c \in Creators : provPc[c] = "streaming")
       => /\ topicExists /\ topicCreated = 1
          /\ subExists /\ subCreated = 1

\* C10 witness: two creators both saw the subscription missing; one created
\* it, the other was answered already-exists and went on to stream.
LostRaceAndContinued ==
    \E c \in Creators : \E d \in Creators \ {c} :
        /\ provPc[c] = "streaming"
        /\ provPc[d] = "s_create"
        /\ subExists

\* C11: provisioning is idempotent.  A call of open or consume that repeats
\* the one the same creator just completed never reaches a creation call,
\* and the check_topic inside consume, which follows open's, never does
\* either; no call fails or ends without streaming; a creator whose open
\* returned sees exactly one topic, created once, and one whose provisioning
\* for consume returned sees exactly one subscription, created once.
ProvisioningIdempotent ==
    \A c \in Creators :
        /\ provPc[c] \notin {"failed", "returned", "s_tcreate"}
        /\ provRuns[c].again => provPc[c] \notin {"t_create", "s_create"}
        /\ provPc[c] \notin {"t_get", "t_create"}
           => topicExists /\ topicCreated = 1
        /\ provPc[c] = "streaming" => subExists /\ subCreated = 1

\* C11 witness: one creator completed a repeated consume and another a
\* repeated open.
RepeatedRunsCompleted ==
    \E c \in Creators : \E d \in Creators \ {c} :
        /\ provRuns[c].again /\ provPc[c] = "streaming"
        /\ provRuns[d].again /\ provPc[d] = "ready"

\* ------------------------------------------------------ end-to-end delivery

\* A producer and a consumer, two RedisPubsub clients bound to the same
\* topic, against one broker that raises nothing.  The callback is the one
\* of the example script: it prints its argument and returns.  A text is a
\* sequence of code points; the wire carries bytes.
Payloads == {<<123, 125>>, <<233>>, <<8364, 97>>}

\* UTF-8 of one code point.
encodeChar(c) ==
    IF c < 128 THEN <<c>>
    ELSE IF c < 2048 THEN <<192 + (c \div 64), 128 + (c % 64)>>
    ELSE <<224 + (c \div 4096), 128 + ((c \div 64) % 64), 128 + (c % 64)>>

\* The bytes the native client puts on the wire for a str.
RECURSIVE encode(_)
encode(str) ==
    IF str = <<>> THEN <<>> ELSE encodeChar(Head(str)) \o encode(Tail(str))

\* bytes.decode() of a well-formed UTF-8 sequence.
RECURSIVE decode(_)
decode(bytes) ==
    IF bytes = <<>> THEN <<>>
    ELSE LET b == bytes[1]
         IN IF b < 128 THEN <<b>> \o decode(Tail(bytes))
            ELSE IF b < 224
            THEN <<(b - 192) * 64 + (bytes[2] - 128)>>
                 \o decode(SubSeq(bytes, 3, Len(bytes)))
            ELSE <<(b - 224) * 4096 + (bytes[2] - 128) * 64 + (bytes[3] - 128)>>
                 \o decode(SubSeq(bytes, 4, Len(bytes)))

InitDelivery ==
    /\ kind = "redis"
    /\ deadLetter = FALSE
    /\ topicExists = FALSE
    /\ subExists = FALSE
    /\ ClientInit
    /\ ProvIdle
    /\ FactoryIdle
    /\ RetryIdle
    /\ LifecycleIdle

deliveryOthers == <<kind, deadLetter, retries, closeCalls, scopeFault, raised,
                    pubReturned, pubConfirmed, brokerVars, trackVars,
                    consumeResult, consumeFault, interrupted, intPending,
                    nextMsg, cbCalls, cbState, acked, dlq, futureCancelled,
                    provVars, retryVars, lc, factoryVars>>

\* The consumer enters its scope (open) and calls consume.
DeliveryOpen ==
    /\ pc = "init"
    /\ client' = "live"
    /\ openCalls' = openCalls + 1
    /\ pc' = "c_start"
    /\ UNCHANGED <<pubCalls, subscribes, confirmed, cur, deliveryVars, deliveryOthers>>

\* consume subscribes a new pubsub handle, created with
\* ignore_subscribe_messages=False: the broker's confirmation is the first
\* event of the subscription.
DeliverySubscribe ==
    /\ pc = "c_start"
    /\ subscribes' = subscribes + 1
    /\ channel' = <<[type |-> "subscribe", data |-> <<>>]>>
    /\ pc' = "c_wait"
    /\ UNCHANGED <<client, openCalls, pubCalls, confirmed, cur, sent, received,
                   deliveryOthers>>

\* The producer's publish(msg): the broker pushes the bytes to the
\* subscription that exists at that moment, and to nobody otherwise.
DeliveryPublish ==
    /\ Len(sent) < MaxSent
    /\ \E msg \in Payloads :
         LET heard == subscribes > 0
         IN /\ sent' = Append(sent, [payload |-> msg, heard |-> heard])
            /\ channel' = IF heard
                          THEN Append(channel, [type |-> "message", data |-> encode(msg)])
                          ELSE channel
    /\ pubCalls' = pubCalls + 1
    /\ UNCHANGED <<pc, client, openCalls, subscribes, confirmed, cur, received,
                   deliveryOthers>>

\* listen() yields the oldest event of the subscription.
DeliveryListen ==
    /\ pc = "c_wait"
    /\ channel # <<>>
    /\ cur' = Head(channel)
    /\ channel' = Tail(channel)
    /\ confirmed' = (confirmed \/ Head(channel).type = "subscribe")
    /\ pc' = "c_exec"
    /\ UNCHANGED <<client, openCalls, pubCalls, subscribes, sent, received,
                   deliveryOthers>>

\* An exec_callback that would hand every event to the callback.
DispatchEveryEvent(event) == <<event.data>>

\* exec_callback(message): the arguments of the callback invocations it
\* makes for one event.
Dispatch(event) ==
    IF event.type = "message" THEN <<decode(event.data)>> ELSE <<>>

\* The event loop passes the event to exec_callback and goes back to listen.
DeliveryExec ==
    /\ pc = "c_exec"
    /\ received' = received \o Dispatch(cur)
    /\ pc' = "c_wait"
    /\ UNCHANGED <<client, openCalls, pubCalls, subscribes, confirmed, cur, channel,
                   sent, deliveryOthers>>

NextDelivery ==
    \/ DeliveryOpen
    \/ DeliverySubscribe
    \/ DeliveryPublish
    \/ DeliveryListen
    \/ DeliveryExec

SpecDelivery == InitDelivery /\ [][NextDelivery]_vars

\* The payloads of the publishes the broker had a subscriber for, in the
\* order published.
RECURSIVE Heard(_)
Heard(s) ==
    IF s = <<>> THEN <<>>
    ELSE (IF Head(s).heard THEN <<Head(s).payload>> ELSE <<>>) \o Heard(Tail(s))

\* C12: the callback invocations are, in order and one each, the payloads
\* published since the consumer subscribed, unmodified: at every moment a
\* prefix of them, and all of them once the consumer has dispatched every
\* event pushed to it.  With the subscription made before the first
\* publish these are all the published payloads.
DeliveredOnceInOrder ==
    LET due == Heard(sent)
    IN /\ Len(received) <= Len(due)
       /\ received = SubSeq(due, 1, Len(received))
       /\ (pc = "c_wait" /\ channel = <<>>) => received = due
       /\ (\A i \in 1..Len(sent) : sent[i].heard)
          => due = [i \in 1..Len(sent) |-> sent[i].payload]

\* C12 witness: three different payloads were published after the
\* subscription and the callback got the three, in that order.
ThreeDelivered ==
    /\ Len(sent) = 3
    /\ \A i \in 1..3 : sent[i].heard
    /\ sent[1].payload = <<123, 125>>
    /\ sent[2].payload = <<8364, 97>>
    /\ sent[3].payload = <<233>>
    /\ received = <<sent[1].payload, sent[2].payload, sent[3].payload>>

\* --------------------------------------------------------- persistent fault

\* One call of a wrapped operation that raises the same fault at every
\* execution (or never raises).  The chains are the nestings of wrapped
\* sites in the source, innermost first.
WrappedChains ==
    {<<"redis.open">>, <<"redis.publish">>, <<"redis.consume">>,
     <<"redis.exec_callback", "redis.consume">>,
     <<"gcp.check_topic">>,
     <<"gcp.check_topic", "gcp.check_subscription", "gcp.consume">>,
     <<"gcp.check_subscription", "gcp.consume">>,
     <<"gcp.publish">>, <<"gcp.consume">>, <<"gcp.exec_callback">>}

PersistentFaults ==
    {"none", "gaierror", "ConnectionError", "ResponseError", "ServiceUnavailable",
     "RetryError", "AlreadyExists", "NotFound", "TimeoutError", "PermissionDenied",
     "MessageProcessingException"}

InitRetry ==
    /\ rtChain \in WrappedChains
    /\ rtFault \in PersistentFaults
    /\ rtPc = "call"
    /\ rtAttempts = 0
    /\ kind = (IF rtChain[1] \in {"redis.open", "redis.publish", "redis.consume",
                                  "redis.exec_callback"} THEN "redis" ELSE "gcp")
    /\ deadLetter = FALSE
    /\ topicExists = FALSE
    /\ subExists = FALSE
    /\ ClientInit
    /\ ProvIdle
    /\ FactoryIdle
    /\ LifecycleIdle

retryOthers == <<pc, retries, scopeVars, pubVars, brokerVars, trackVars, consVars,
                 provVars, deliveryVars, lc, factoryVars>>

\* One execution of the operation, and the decision of the wrappers around
\* it: the call returns (no fault, or a suppressed one), raises to its
\* caller, or a wrapper schedules a replay.  No wrapper keeps a count.
RetryCall ==
    /\ rtPc = "call"
    /\ LET p == Propagate(rtFault, rtChain)
       IN rtPc' = CASE p.d = "retry" -> "backoff"
                    [] p.d = "raise" -> "raised"
                    [] OTHER -> "returned"
    /\ rtAttempts' = IF rtAttempts < MaxAttempts THEN rtAttempts + 1 ELSE rtAttempts
    /\ UNCHANGED <<rtChain, rtFault, retryOthers>>

\* The backoff delay elapses and the wrapper executes the operation again.
RetryBackoff ==
    /\ rtPc = "backoff"
    /\ rtPc' = "call"
    /\ UNCHANGED <<rtChain, rtFault, rtAttempts, retryOthers>>

NextRetry == RetryCall \/ RetryBackoff

SpecRetry == InitRetry /\ [][NextRetry]_vars

\* The operation and the timer of the backoff both make progress.
FairSpecRetry == SpecRetry /\ WF_vars(RetryCall) /\ WF_vars(RetryBackoff)

\* C13: a wrapped call whose operation raises, at every execution, a fault
\* on which a wrapper around it replays, eventually ends by raising a fault
\* to its caller.
PersistentFaultPropagates ==
    (Propagate(rtFault, rtChain).d = "retry") => <>(rtPc = "raised")

\* ------------------------------------------------- cloud callback faults

\* C14: in the cloud client a fault of the user callback ends the consume
\* call: once the callback has faulted for a message, the streaming pull
\* hands no further message to the callback.
CallbackFaultEndsStreaming ==
    [][(kind = "gcp" /\ \E m \in Msgs : cbState[m] \in {"retry", "fault"})
       => \A n \in Msgs : cbState[n] = "pending" => cbState'[n] = "pending"]_vars

\* ------------------------------------------------- direct use of a client

\* A caller uses one client without the managed scope: it calls open, close,
\* publish and consume in any order.  lc.state is what the calls told the
\* caller: "new", "open" (open returned), "failed" (open raised) or "closed"
\* (close returned).  A handle the instance stops referring to without
\* releasing it stays live until the runtime finalizes it, at a time the
\* source does not control.
InitLifecycle ==
    /\ kind \in {"redis", "gcp"}
    /\ deadLetter \in BOOLEAN
    /\ topicExists = FALSE
    /\ subExists = FALSE
    /\ ClientInit
    /\ ProvIdle
    /\ FactoryIdle
    /\ RetryIdle
    /\ LifecycleIdle

lifecycleOthers == <<pc, retries, scopeVars, pubVars, brokerVars, trackVars, consVars,
                     provVars, deliveryVars, retryVars, factoryVars>>

\* The record of a call that ended now.
Ended(call, fault, reached) ==
    [call |-> call, fault |-> fault, stateBefore |-> lc.state, reached |-> reached]

\* Calling a method of the handle field while it is None.
OnNone(call) ==
    lc' = [lc EXCEPT !.last = Ended(call, "AttributeError", FALSE),
                     !.pc = "idle", !.calls = @ + 1]

\* One execution of RedisPubsub.open under its wrapper: a new native client
\* replaces the field, then the probe.
LcRedisOpen ==
    /\ kind = "redis"
    /\ lc.pc \in {"idle", "o_retry"}
    /\ lc.calls < MaxCalls
    /\ \E f \in RedisOpenFaults :
         LET p == Propagate(f, <<"redis.open">>)
             dropped == lc.handle = "held" /\ lc.conn
         IN lc' = [lc EXCEPT
                     !.handle = "held",
                     !.conn = f \in {"none", "ResponseError"},
                     !.orphans = IF dropped THEN @ + 1 ELSE @,
                     !.pubsub = IF @ = "live" THEN "stale" ELSE @,
                     !.pc = IF p.d = "retry" THEN "o_retry" ELSE "idle",
                     !.state = CASE p.d = "retry" -> @
                                 [] p.d = "raise" -> "failed"
                                 [] OTHER -> "open",
                     !.last = IF p.d = "retry" THEN @
                              ELSE Ended("open", IF p.d = "raise" THEN f ELSE "none",
                                         f \in {"none", "ResponseError"}),
                     !.calls = @ + 1]
    /\ UNCHANGED lifecycleOthers

\* RedisPubsub.close: self._client.close(), which disconnects the
\* connections of that native client, those of its pubsub handles included.
LcRedisClose ==
    /\ kind = "redis"
    /\ lc.pc = "idle"
    /\ lc.calls < MaxCalls
    /\ IF lc.handle = "None"
       THEN OnNone("close")
       ELSE lc' = [lc EXCEPT !.conn = FALSE,
                             !.pubsub = IF @ = "live" THEN "closed" ELSE @,
                             !.state = "closed",
                             !.last = Ended("close", "none", FALSE),
                             !.calls = @ + 1]
    /\ UNCHANGED lifecycleOthers

\* One execution of RedisPubsub.publish under its wrapper; the native client
\* connects when it has no connection.
LcRedisPublish ==
    /\ kind = "redis"
    /\ lc.pc \in {"idle", "p_retry"}
    /\ lc.calls < MaxCalls
    /\ IF lc.handle = "None"
       THEN OnNone("publish")
       ELSE \E f \in RedisPublishFaults :
              LET p == Propagate(f, <<"redis.publish">>)
              IN lc' = [lc EXCEPT
                          !.conn = f # "ConnectionError",
                          !.pc = IF p.d = "retry" THEN "p_retry" ELSE "idle",
                          !.last = IF p.d = "retry" THEN @
                                   ELSE Ended("publish",
                                              IF p.d = "raise" THEN f ELSE "none", TRUE),
                          !.calls = @ + 1]
    /\ UNCHANGED lifecycleOthers

\* One execution of RedisPubsub.consume up to its event loop: a new pubsub
\* handle replaces the field and subscribes.
LcRedisConsume ==
    /\ kind = "redis"
    /\ lc.pc \in {"idle", "c_retry"}
    /\ lc.calls < MaxCalls
    /\ IF lc.handle = "None"
       THEN OnNone("consume")
       ELSE \E f \in RedisSubscribeFaults :
              LET p == Propagate(f, <<"redis.consume">>)
                  dropped == lc.pubsub \in {"live", "stale"}
              IN lc' = [lc EXCEPT
                          !.pubsub = IF f = "none" THEN "live" ELSE "closed",
                          !.conn = IF f = "none" THEN TRUE ELSE @,
                          !.orphans = IF dropped THEN @ + 1 ELSE @,
                          !.pc = CASE p.d = "return" -> "listening"
                                   [] p.d = "retry" -> "c_retry"
                                   [] OTHER -> "idle",
                          !.last = IF p.d = "raise" THEN Ended("consume", f, FALSE)
                                   ELSE @,
                          !.calls = @ + 1]
    /\ UNCHANGED lifecycleOthers

\* How the event loop can end: where the fault arises, the fault that leaves
\* the loop, and whether the pubsub connection survives it.
LoopEnds ==
    {[at |-> "listen", fault |-> "KeyboardInterrupt", alive |-> TRUE],
     [at |-> "listen", fault |-> "ConnectionError", alive |-> FALSE],
     [at |-> "callback", fault |-> "ValueError", alive |-> TRUE]}
    \cup (IF deadLetter
          THEN {[at |-> "deadLetter", fault |-> "ConnectionError", alive |-> TRUE]}
          ELSE {})

\* The event loop of RedisPubsub.consume ends: the interruption handler
\* returns, any other fault goes to consume's wrapper.
LcRedisLoopEnds ==
    /\ kind = "redis"
    /\ lc.pc = "listening"
    /\ \E e \in LoopEnds :
         LET f == IF IsException(e.fault) THEN e.fault ELSE "none"
             p == Propagate(f, <<"redis.consume">>)
         IN lc' = [lc EXCEPT
                     !.pubsub = IF e.alive THEN @ ELSE "closed",
                     !.pc = IF p.d = "retry" THEN "c_retry" ELSE "idle",
                     !.last = IF p.d = "retry" THEN @
                              ELSE Ended("consume", f, TRUE)]
    /\ UNCHANGED lifecycleOthers

\* The runtime finalizes one handle the instance dropped.
LcFinalize ==
    /\ lc.orphans > 0
    /\ lc' = [lc EXCEPT !.orphans = @ - 1]
    /\ UNCHANGED lifecycleOthers

\* GCPPubSub.open: a new publisher client replaces the field, then
\* check_topic returns or raises.
LcGCPOpen ==
    /\ kind = "gcp"
    /\ lc.pc = "idle"
    /\ lc.calls < MaxCalls
    /\ \E f \in {"none", "PermissionDenied"} :
         lc' = [lc EXCEPT
                  !.handle = "held",
                  !.conn = TRUE,
                  !.orphans = IF lc.handle = "held" THEN @ + 1 ELSE @,
                  !.state = IF f = "none" THEN "open" ELSE "failed",
                  !.last = Ended("open", f, TRUE),
                  !.calls = @ + 1]
    /\ UNCHANGED lifecycleOthers

\* GCPPubSub.close: a log line.
LcGCPClose ==
    /\ kind = "gcp"
    /\ lc.pc = "idle"
    /\ lc.calls < MaxCalls
    /\ lc' = [lc EXCEPT !.state = "closed",
                        !.last = Ended("close", "none", FALSE),
                        !.calls = @ + 1]
    /\ UNCHANGED lifecycleOthers

\* GCPPubSub.publish and GCPPubSub.consume with a broker that answers:
\* both go through the publisher client (consume in check_topic); consume's
\* subscriber client lives in a with block and is released when it ends.
LcGCPUse(call) ==
    /\ kind = "gcp"
    /\ lc.pc = "idle"
    /\ lc.calls < MaxCalls
    /\ IF lc.handle = "None"
       THEN OnNone(call)
       ELSE lc' = [lc EXCEPT !.last = Ended(call, "none", TRUE), !.calls = @ + 1]
    /\ UNCHANGED lifecycleOthers

NextLifecycle ==
    \/ LcRedisOpen
    \/ LcRedisClose
    \/ LcRedisPublish
    \/ LcRedisConsume
    \/ LcRedisLoopEnds
    \/ LcFinalize
    \/ LcGCPOpen
    \/ LcGCPClose
    \/ LcGCPUse("publish")
    \/ LcGCPUse("consume")

SpecLifecycle == InitLifecycle /\ [][NextLifecycle]_vars

\* C15: between calls the connection is either fully open or fully closed:
\* after open raised the client holds no handle and no connection, and a
\* publish or consume made after close returned or open raised, with no new
\* open, does not reach the broker.
ConnectionOpenOrClosed ==
    lc.pc = "idle" =>
        /\ (lc.last.call = "open" /\ lc.last.fault # "none")
           => (lc.handle = "None" /\ ~lc.conn)
        /\ (lc.last.call \in {"publish", "consume"}
            /\ lc.last.stateBefore \in {"closed", "failed"})
           => ~lc.last.reached

\* C16: the instance has no live handle besides the current ones: none it
\* dropped without releasing, and no pubsub handle of an earlier native
\* client.
AtMostOneLiveHandle ==
    lc.orphans = 0 /\ lc.pubsub # "stale"

\* C18: close of the redis client returns without a fault in every state of
\* the client, and no connection is held after it.
RedisCloseNeverRaises ==
    (kind = "redis" /\ lc.pc = "idle" /\ lc.last.call = "close")
    => (lc.last.fault = "none" /\ ~lc.conn /\ lc.pubsub \notin {"live", "stale"})

\* ------------------------------------------------- subscription binding

\* C17: when the provisioning of consume has completed and the streaming
\* pull runs, the subscription it pulls from exists and is bound to the
\* client's own topic, whatever the broker held before.
StreamsFromOwnTopic ==
    (kind = "gcp" /\ pc = "c_wait") => (subExists /\ subTopic = "own")

\* ------------------------------------------- interruption in the callback

\* The events of the dead-letter topic.
DeadLettered == {dlq[i] : i \in 1..Len(dlq)}

\* C19: in the redis client an interruption raised while the user callback
\* runs for message m ends consume in order: consume has returned without a
\* fault, m was not published to the dead-letter topic, and no message after
\* m was yielded or dispatched.
InterruptInCallbackExitsOrderly ==
    \A m \in Msgs :
        (kind = "redis" /\ cbState[m] = "interrupted")
        => /\ consumeResult = "returned"
           /\ consumeFault = "none"
           /\ pc \in {"body", "exit", "done"}
           /\ MessageEvent(m) \notin DeadLettered
           /\ nextMsg = m
           /\ \A n \in Msgs : n > m => cbCalls[n] = 0

\* C19 witness: with a dead-letter topic given, the callback was interrupted
\* on the first message while the broker had more to deliver.
InterruptedOnFirstMessage ==
    /\ kind = "redis"
    /\ deadLetter
    /\ cbState[1] = "interrupted"
    /\ cbCalls[1] = 1
    /\ consumeResult = "returned"

\* ------------------------------------------------------- factory default

\* C20: called without an argument while BROKER is not set in the
\* environment, the factory returns the cloud client type.
DefaultIsCloudClient ==
    (brokerFrom = "default" /\ factoryOut # "pending") => factoryOut = "GCPPubSub"

====
